---------------------------- MODULE Spec2Model ----------------------------
(***************************************************************************)
(* Savu: the slice / frame / pad partitioning engine of                    *)
(* Hdf5TransportData and the plugin-list runner of PluginRunner.           *)
(*                                                                         *)
(* Python lists and tuples are sequences (Python index k is element k+1),  *)
(* dimension numbers keep their 0-based Python values.  A Python value    *)
(* that may be None is a sequence of length 0 (None) or 1 (the value).     *)
(* The result of a call is a record [exc, val]: exc = "" when the call     *)
(* returned val, otherwise the name of the exception that ended it.        *)
(***************************************************************************)
EXTENDS Integers, Sequences, FiniteSets, TLC

\* ------------------------------------------------------------------ bounds
MaxExtent == 3
NDims == 3
MaxFrames == 4
MaxBatches == 17
MaxProcs == 5
MaxPad == 2
MaxPlugins == 4

VARIABLES
    pc,           \* position of the modelled caller
    shape,        \* self.get_shape()
    slice_dirs,   \* self.get_slice_directions()
    fix_dirs,     \* self.get_fixed_directions()[0]
    value,        \* self.get_fixed_directions()[1]
    nFrames,      \* self.get_nFrames(): None or an integer
    slice_list,   \* result of single_slice_list()
    grouped,      \* result of get_grouped_slice_list()
    batch_list,   \* the list get_grouped_slice_list() hands to the distributor
    processes,    \* expInfo.get_meta_data("processes")
    frame_list,   \* rank -> the frameList keyword the rank's process passes
    per_process,  \* rank -> result of get_slice_list_per_process on that rank
    data,         \* self.data, a 2-D array (a list of rows)
    padding,      \* None, or the dict get_padding_dict() returns
    window,       \* input_slice_list: one slice per dimension of data
    calc,         \* slice_list and pad_list of get_padded_slice_data
    padded,       \* result of get_padded_slice_data
    unpadded,     \* result of get_unpadded_slice_data
    plugin_list,  \* exp.meta_data.plugin_list.plugin_list
    log           \* the steps of _run_plugin_list taken so far

sliceVars == <<shape, slice_dirs, fix_dirs, value, nFrames, slice_list, grouped>>
distVars == <<batch_list, processes, frame_list, per_process>>
padVars == <<data, padding, window, calc, padded, unpadded>>
runVars == <<plugin_list, log>>
vars == <<pc, sliceVars, distVars, padVars, runVars>>

\* ---------------------------------------------------------- Python values
None == <<>>
Some(v) == <<v>>
Ok(v) == [exc |-> "", val |-> v]
Raise(e) == [exc |-> e, val |-> <<>>]
NotCalled == [exc |-> "not called", val |-> <<>>]

\* slice(start, stop, step); slice(None) is PySliceNone
PySlice(start, stop, step) == [start |-> start, stop |-> stop, step |-> step]
PySliceNone == PySlice(None, None, None)
UnitSlice(v) == PySlice(Some(v), Some(v + 1), Some(1))

Min(a, b) == IF a < b THEN a ELSE b
Max(a, b) == IF a > b THEN a ELSE b

\* numpy.prod of a sequence (1 for the empty sequence)
RECURSIVE Prod(_)
Prod(s) == IF Len(s) = 0 THEN 1 ELSE s[1] * Prod(Tail(s))

\* s[a:b] for 0 <= a, 0 <= b: Python clamps both ends to len(s)
ListSlice(s, a, b) == SubSeq(s, Min(a, Len(s)) + 1, Min(b, Len(s)))

\* int(a / float(b)) for a >= 0, b # 0: truncation towards zero
TruncDiv(a, b) == IF b > 0 THEN a \div b ELSE 0 - (a \div (0 - b))

\* a % b for a >= 0, b # 0: the result takes the sign of b
PyMod(a, b) ==
    IF b > 0 THEN a % b
    ELSE IF a % (0 - b) = 0 THEN 0 ELSE (a % (0 - b)) + b

\* range(0, stop, step) as a list, step # 0
PyRange0(stop, step) ==
    IF step > 0
    THEN [j \in 1..(IF stop > 0 THEN (stop + step - 1) \div step ELSE 0)
              |-> (j - 1) * step]
    ELSE [j \in 1..(IF stop < 0 THEN ((0 - stop) + (0 - step) - 1) \div (0 - step) ELSE 0)
              |-> (j - 1) * step]

\* --------------------------------------------------- chunk / length / repeat
sliced_shape(sdirs, shp) == [k \in 1..Len(sdirs) |-> shp[sdirs[k] + 1]]

\* the variant that counts chunk over the faster and repeat over the slower
\* slice dimensions (last entry of slice_dirs fastest)
chunk_length_repeat_last_fastest(sdirs, shp) ==
    LET sshape == sliced_shape(sdirs, shp)
    IN  [chunk  |-> [k \in 1..Len(sdirs) |-> Prod(SubSeq(sshape, k + 1, Len(sshape)))],
         length |-> sshape,
         repeat |-> [k \in 1..Len(sdirs) |-> Prod(SubSeq(sshape, 1, k - 1))]]

chunk_length_repeat(sdirs, shp) ==
    LET sshape == sliced_shape(sdirs, shp)
    IN  [chunk  |-> [k \in 1..Len(sdirs) |-> Prod(SubSeq(shp, 1, k - 1))],
         length |-> sshape,
         repeat |-> [k \in 1..Len(sdirs) |-> Prod(SubSeq(sshape, k + 1, Len(sshape)))]]

\* np.ravel(np.kron(np.arange(l), np.ones((r, c)))): r rows, each holding
\* every value of 0..l-1 c times in a row
kron_ravel(l, r, c) == [i \in 1..(r * l * c) |-> ((i - 1) \div c) % l]

\* the list idx_list of get_slice_dirs_index, before np.array is applied
get_slice_dirs_index(sdirs, shp) ==
    LET clr == chunk_length_repeat(sdirs, shp)
    IN  [k \in 1..Len(sdirs) |-> kron_ravel(clr.length[k], clr.repeat[k], clr.chunk[k])]

\* np.array(idx_list) is a 2-D array only when every row has the same length
IsRagged(idx_list) ==
    \E a, b \in 1..Len(idx_list) : Len(idx_list[a]) # Len(idx_list[b])

\* ------------------------------------------------------- single_slice_list
\* the position in sdirs whose assignment to getitem[d] is the last one
LastPos(sdirs, d) ==
    CHOOSE s \in 1..Len(sdirs) :
        /\ sdirs[s] = d
        /\ \A t \in (s + 1)..Len(sdirs) : sdirs[t] # d

single_slice_list(shp, sdirs, fdirs, val) ==
    LET index == get_slice_dirs_index(sdirs, shp)
        nDims == Len(shp)
        getitem(i) ==
            [d1 \in 1..nDims |->
                IF \E s \in 1..Len(sdirs) : sdirs[s] = d1 - 1
                THEN UnitSlice(index[LastPos(sdirs, d1 - 1)][i])
                ELSE IF \E f \in 1..Len(fdirs) : fdirs[f] = d1 - 1
                THEN UnitSlice(val[LastPos(fdirs, d1 - 1)])
                ELSE PySliceNone]
    IN  IF Len(sdirs) = 0 \/ IsRagged(index)
        THEN Raise("IndexError")     \* index.shape[1] of a 1-D array
        ELSE Ok([i \in 1..Len(index[1]) |-> getitem(i)])

\* ------------------------------------------------------------- banked_list
banked_list(sl, shp, sdirs) ==
    LET clr == chunk_length_repeat(sdirs, shp)
    IN  [banked |-> [rep1 \in 1..clr.repeat[1] |->
                        ListSlice(sl, (rep1 - 1) * clr.length[1],
                                  (rep1 - 1) * clr.length[1] + clr.length[1])],
         length |-> clr.length[1],
         slice_dir |-> sdirs]

\* ------------------------------------------------------ grouped_slice_list
\* One pass of "for group in banked".  st = [grouped, i, exc]: the list built
\* so far, the loop variable i (None while unbound; it is a local of the
\* whole function and survives from one bank to the next) and the exception.
group_bank(st, group, length, slice_dir, max_frames) ==
    IF st.exc # "" THEN st
    ELSE IF max_frames = 0 THEN [st EXCEPT !.exc = "ZeroDivisionError"]
    ELSE IF Len(group) = 0 THEN [st EXCEPT !.exc = "IndexError"]
    ELSE
    LET full_frames == TruncDiv(length, max_frames)
        rem == IF PyMod(length, max_frames) # 0 THEN 1 ELSE 0
        working(new_slice) == [group[1] EXCEPT ![slice_dir[1] + 1] = new_slice]
        is == PyRange0(full_frames * max_frames, max_frames)
        full == [j \in 1..Len(is) |->
                    working(PySlice(Some(is[j]), Some(is[j] + max_frames), Some(1)))]
        i == IF Len(is) > 0 THEN Some(is[Len(is)]) ELSE st.i
    IN  IF rem = 0
        THEN [grouped |-> st.grouped \o full, i |-> i, exc |-> ""]
        ELSE IF i = None
        THEN [grouped |-> st.grouped \o full, i |-> i, exc |-> "UnboundLocalError"]
        ELSE [grouped |-> st.grouped \o full \o
                  <<working(PySlice(Some(i[1] + max_frames), Some(Len(group)), Some(1)))>>,
              i |-> i, exc |-> ""]

RECURSIVE group_banks(_, _, _, _, _)
group_banks(st, banked, length, slice_dir, max_frames) ==
    IF Len(banked) = 0 THEN st
    ELSE group_banks(group_bank(st, banked[1], length, slice_dir, max_frames),
                     Tail(banked), length, slice_dir, max_frames)

grouped_slice_list(sl, max_frames, shp, sdirs) ==
    LET b == banked_list(sl, shp, sdirs)
        st == group_banks([grouped |-> <<>>, i |-> None, exc |-> ""],
                          b.banked, b.length, b.slice_dir, max_frames)
    IN  IF st.exc # "" THEN Raise(st.exc) ELSE Ok(st.grouped)

\* -------------------------------------------------- get_grouped_slice_list
get_grouped_slice_list(nF, shp, sdirs, fdirs, val) ==
    LET max_frames == IF nF = None THEN 1 ELSE nF[1]
        sl == single_slice_list(shp, sdirs, fdirs, val)
    IN  IF sl.exc # "" THEN sl
        ELSE grouped_slice_list(sl.val, max_frames, shp, sdirs)

\* ------------------------------------------------------------------ inputs
Dims == 0..(NDims - 1)
Shapes == [1..NDims -> 1..MaxExtent]

\* ordered, duplicate-free, non-empty lists of dimensions
SliceDirsSet ==
    {s \in UNION {[1..n -> Dims] : n \in 1..NDims} :
        \A a, b \in 1..Len(s) : a # b => s[a] # s[b]}

\* the dimensions of a set in ascending order
RECURSIVE SortedSeq(_)
SortedSeq(S) ==
    IF S = {} THEN <<>>
    ELSE LET m == CHOOSE x \in S : \A y \in S : x <= y
         IN  <<m>> \o SortedSeq(S \ {m})

FrameCounts == {None} \cup {Some(v) : v \in (0 - MaxFrames)..MaxFrames}

\* ------------------------------------------- components that are not in use
IdleSlices ==
    /\ shape = <<>>
    /\ slice_dirs = <<>>
    /\ fix_dirs = <<>>
    /\ value = <<>>
    /\ nFrames = None
    /\ slice_list = NotCalled
    /\ grouped = NotCalled

IdleDist ==
    /\ batch_list = <<>>
    /\ processes = <<>>
    /\ frame_list = <<>>
    /\ per_process = <<>>

IdlePad ==
    /\ data = <<>>
    /\ padding = None
    /\ window = <<>>
    /\ calc = <<>>
    /\ padded = NotCalled
    /\ unpadded = NotCalled

IdleRun ==
    /\ plugin_list = <<>>
    /\ log = <<>>

\* --------------------------------------------------------- the slicing spec
InitSlices ==
    /\ IdleDist /\ IdlePad /\ IdleRun
    /\ pc = "start"
    /\ shape \in Shapes
    /\ slice_dirs \in SliceDirsSet
    /\ \E F \in SUBSET (Dims \ {slice_dirs[k] : k \in 1..Len(slice_dirs)}) :
           fix_dirs = SortedSeq(F)
    /\ value = [f \in 1..Len(fix_dirs) |-> shape[fix_dirs[f] + 1] - 1]
    /\ nFrames = None
    /\ slice_list = NotCalled
    /\ grouped = NotCalled

SingleSliceList ==
    /\ pc = "start"
    /\ slice_list' = single_slice_list(shape, slice_dirs, fix_dirs, value)
    /\ pc' = "sliced"
    /\ UNCHANGED <<shape, slice_dirs, fix_dirs, value, nFrames, grouped>>
    /\ UNCHANGED <<distVars, padVars, runVars>>

GetGroupedSliceList ==
    /\ pc = "sliced"
    /\ \E nF \in FrameCounts :
        /\ nFrames' = nF
        /\ grouped' = get_grouped_slice_list(nF, shape, slice_dirs, fix_dirs, value)
    /\ pc' = "grouped"
    /\ UNCHANGED <<shape, slice_dirs, fix_dirs, value, slice_list>>
    /\ UNCHANGED <<distVars, padVars, runVars>>

SpecEnum == InitSlices /\ [][SingleSliceList]_vars
SpecBatch == InitSlices /\ [][SingleSliceList \/ GetGroupedSliceList]_vars


\* ------------------------------------------------- properties of the slicing
\* coordinate of descriptor i on the slice dimension at position s of sdirs
Coord(sl, sdirs, i, s) == sl[i][sdirs[s] + 1].start[1]

\* coordinate tuples of the slice-dimension subspace
SliceSpace(sdirs, shp) ==
    {t \in [1..Len(sdirs) -> 0..(MaxExtent - 1)] :
        \A s \in 1..Len(sdirs) : t[s] < shp[sdirs[s] + 1]}

\* C1 (as claimed): for every shape and every ordered choice of slice
\* dimensions single_slice_list returns exactly product(shape[d] for d in
\* slice_dirs) descriptors, and every coordinate tuple of the slice-dimension
\* subspace is the unit range of exactly one of them.
C1_PartitionComplete ==
    pc = "sliced" =>
        /\ slice_list.exc = ""
        /\ Len(slice_list.val) = Prod(sliced_shape(slice_dirs, shape))
        /\ \A t \in SliceSpace(slice_dirs, shape) :
              Cardinality({i \in 1..Len(slice_list.val) :
                  \A s \in 1..Len(slice_dirs) :
                      slice_list.val[i][slice_dirs[s] + 1] = UnitSlice(t[s])}) = 1

\* descriptor i -> i+1 takes the slice dimension at position s from its last
\* coordinate back to 0
Wraps(sl, i, s) ==
    /\ Coord(sl, slice_dirs, i, s) = shape[slice_dirs[s] + 1] - 1
    /\ Coord(sl, slice_dirs, i + 1, s) = 0

Advances(sl, i, s) ==
    Coord(sl, slice_dirs, i + 1, s) =
        (Coord(sl, slice_dirs, i, s) + 1) % shape[slice_dirs[s] + 1]

\* C7 (as claimed): in the sequence single_slice_list produces the LAST entry
\* of slice_dirs varies fastest: between consecutive descriptors its
\* coordinate advances by one or wraps to 0, and the coordinate of an earlier
\* entry changes only when all later entries wrap.
C7_LastFastest ==
    (pc = "sliced" /\ slice_list.exc = "") =>
        LET sl == slice_list.val
            n == Len(slice_dirs)
        IN  \A i \in 1..(Len(sl) - 1) :
                /\ Advances(sl, i, n)
                /\ \A s \in 1..(n - 1) :
                      Coord(sl, slice_dirs, i + 1, s) # Coord(sl, slice_dirs, i, s)
                          => \A t \in (s + 1)..n : Wraps(sl, i, t)

\* C7 (amended): in every sequence single_slice_list produces the FIRST entry
\* of slice_dirs varies fastest: between consecutive descriptors its
\* coordinate advances by one or wraps to 0, and the coordinate of a later
\* entry changes only when all earlier entries wrap.
C7_FirstFastest ==
    (pc = "sliced" /\ slice_list.exc = "") =>
        LET sl == slice_list.val
            n == Len(slice_dirs)
        IN  \A i \in 1..(Len(sl) - 1) :
                /\ Advances(sl, i, 1)
                /\ \A s \in 2..n :
                      Coord(sl, slice_dirs, i + 1, s) # Coord(sl, slice_dirs, i, s)
                          => \A t \in 1..(s - 1) : Wraps(sl, i, t)

\* a sequence was produced over two slice dimensions of extent > 1 that are
\* not the leading dimensions in array order
C7_Witness ==
    /\ pc = "sliced"
    /\ slice_list.exc = ""
    /\ slice_dirs = <<2, 0>>
    /\ shape[1] = 2
    /\ shape[3] = 2
    /\ Len(slice_list.val) = 4
    /\ Coord(slice_list.val, slice_dirs, 2, 1) = 1
    /\ Coord(slice_list.val, slice_dirs, 2, 2) = 0

\* the batches expected of one bank: bank is its run of unit slices, fast the
\* (0-based) dimension the run sweeps, mf the positive batch size
ExpectedBatches(bank, fast, mf) ==
    LET L == Len(bank)
    IN  [j \in 1..((L + mf - 1) \div mf) |->
            [bank[1] EXCEPT ![fast + 1] =
                PySlice(Some((j - 1) * mf), Some(Min(j * mf, L)), Some(1))]]

RECURSIVE ExpectedGrouped(_, _, _, _)
ExpectedGrouped(sl, L, fast, mf) ==
    IF Len(sl) = 0 THEN <<>>
    ELSE ExpectedBatches(SubSeq(sl, 1, L), fast, mf)
             \o ExpectedGrouped(SubSeq(sl, L + 1, Len(sl)), L, fast, mf)

\* C2 (as claimed): for every bank of length L and every positive max_frames
\* (also max_frames > L) the grouping returns, bank after bank,
\* floor(L / max_frames) batches of max_frames unit slices followed by one
\* batch for the remainder when L mod max_frames # 0; the ranges of a bank,
\* in order, are [0, L) without gap or overlap.
C2_BatchReconstruction ==
    (/\ pc = "grouped"
     /\ slice_list.exc = ""
     /\ nFrames # None
     /\ nFrames[1] >= 1) =>
        /\ grouped.exc = ""
        /\ grouped.val = ExpectedGrouped(slice_list.val, shape[slice_dirs[1] + 1],
                                         slice_dirs[1], nFrames[1])

\* C9 (as claimed): on a non-empty slice list a batch size <= 0 ends the
\* request with an error and no batch list is returned; an unset batch size
\* gives one unit slice per batch.
C9_InvalidBatchSizeRejected ==
    (pc = "grouped" /\ slice_list.exc = "" /\ Len(slice_list.val) > 0) =>
        /\ (nFrames # None /\ nFrames[1] <= 0) => grouped.exc # ""
        /\ nFrames = None => grouped = Ok(slice_list.val)


\* ===================================================== process distribution
\* np.array_split(np.arange(n), sections)[process]: the first n % sections
\* sub-arrays hold n // sections + 1 indices, the others n // sections
array_split(n, sections, process) ==
    LET each == n \div sections
        extras == n % sections
        start == process * each + Min(process, extras)
        size == each + (IF process < extras THEN 1 ELSE 0)
    IN  [k \in 1..size |-> start + k - 1]

\* the variant whose upper end leaves out the last frame of the rank
get_slice_list_per_process_short(sl, procs, process, frameList) ==
    LET frame_index == [k \in 1..Len(sl) |-> k - 1]
        frames == array_split(Len(sl), Len(procs), process)
    IN  IF Len(frames) = 0
        THEN Raise("IndexError")
        ELSE LET mine == ListSlice(sl, frames[1], frames[Len(frames)])
             IN  IF frameList THEN Ok(<<mine, frame_index>>) ELSE Ok(mine)

get_slice_list_per_process(sl, procs, process, frameList) ==
    LET frame_index == [k \in 1..Len(sl) |-> k - 1]
        frames == array_split(Len(sl), Len(procs), process)
    IN  IF Len(frames) = 0
        THEN Raise("IndexError")         \* frames[0] of an empty array
        ELSE LET mine == ListSlice(sl, frames[1], frames[Len(frames)] + 1)
             IN  IF frameList THEN Ok(<<mine, frame_index>>) ELSE Ok(mine)

InitDist ==
    /\ IdleSlices /\ IdlePad /\ IdleRun
    /\ pc = "start"
    /\ \E n \in 0..MaxBatches : batch_list = [k \in 1..n |-> k - 1]
    /\ \E P \in 1..MaxProcs : processes = [k \in 1..P |-> k - 1]
    /\ frame_list = [k \in 1..Len(processes) |-> FALSE]
    /\ per_process = [k \in 1..Len(processes) |-> NotCalled]

\* the process of one rank asks for its share; frameList is its keyword
GetSliceListPerProcess ==
    /\ pc = "start"
    /\ \E process \in 0..(Len(processes) - 1), frameList \in BOOLEAN :
        /\ per_process[process + 1] = NotCalled
        /\ frame_list' = [frame_list EXCEPT ![process + 1] = frameList]
        /\ per_process' = [per_process EXCEPT ![process + 1] =
               get_slice_list_per_process(batch_list, processes, process, frameList)]
    /\ UNCHANGED <<pc, batch_list, processes>>
    /\ UNCHANGED <<sliceVars, padVars, runVars>>

SpecDist == InitDist /\ [][GetSliceListPerProcess]_vars

\* the rank has been served
Served(r) == per_process[r + 1] # NotCalled
Returned(r) == per_process[r + 1].exc = ""
\* the sub-list a served rank received
Share(r) ==
    IF Returned(r) /\ frame_list[r + 1]
    THEN per_process[r + 1].val[1]
    ELSE per_process[r + 1].val

\* ceil(n/P) for the first n mod P ranks, floor(n/P) for the others
ShareSize(n, P, r) == (n \div P) + (IF r < n % P THEN 1 ELSE 0)

RECURSIVE ShareStart(_, _, _)
ShareStart(n, P, r) ==
    IF r = 0 THEN 0 ELSE ShareStart(n, P, r - 1) + ShareSize(n, P, r - 1)

RECURSIVE SharesUpTo(_)
SharesUpTo(r) == IF r < 0 THEN <<>> ELSE SharesUpTo(r - 1) \o Share(r)

\* C3: with at least as many batches as processes every rank is returned a
\* contiguous run of the batch list, the runs follow each other in rank
\* order, the first n mod P ranks hold ceil(n/P) batches and the others
\* floor(n/P), and once every rank is served the runs, joined in rank order,
\* are the batch list: every batch is assigned exactly once.
C3_BalancedPartition ==
    LET n == Len(batch_list)
        P == Len(processes)
    IN  (pc = "start" /\ P >= 1 /\ n >= P) =>
            /\ \A r \in 0..(P - 1) : Served(r) =>
                  /\ Returned(r)
                  /\ Len(Share(r)) = ShareSize(n, P, r)
                  /\ Share(r) = SubSeq(batch_list, ShareStart(n, P, r) + 1,
                                       ShareStart(n, P, r) + ShareSize(n, P, r))
            /\ (\A r \in 0..(P - 1) : Served(r)) => SharesUpTo(P - 1) = batch_list
            /\ \A r, q \in 0..(P - 1) :
                  (Served(r) /\ Served(q)) => Len(Share(r)) - Len(Share(q)) \in {-1, 0, 1}

\* 17 batches on 5 processes: every rank served, sizes 4, 4, 3, 3, 3
C3_Witness ==
    /\ Len(batch_list) = 17
    /\ Len(processes) = 5
    /\ \A r \in 0..4 : Served(r) /\ Returned(r)
    /\ [r \in 1..5 |-> Len(Share(r - 1))] = <<4, 4, 3, 3, 3>>

\* C4 (as claimed): with fewer batches than processes a rank that is assigned
\* no batch is returned an empty list and no error, and a rank that is
\* assigned a batch is returned exactly that batch.
C4_EmptyShareNoError ==
    LET n == Len(batch_list)
        P == Len(processes)
    IN  (pc = "start" /\ P >= 1 /\ n < P) =>
            \A r \in 0..(P - 1) : Served(r) =>
                /\ Returned(r)
                /\ Share(r) = IF r < n THEN <<batch_list[r + 1]>> ELSE <<>>


\* ======================================================== boundary padding
\* a[sl] on one axis of length n: a bound below 0 counts from the end, both
\* bounds are clamped to 0..n (the step is 1 or None throughout)
Resolve(v, n) == IF v < 0 THEN Max(v + n, 0) ELSE Min(v, n)

NpIndex1(seq, sl) ==
    LET n == Len(seq)
        a == IF sl.start = None THEN 0 ELSE Resolve(sl.start[1], n)
        b == IF sl.stop = None THEN n ELSE Resolve(sl.stop[1], n)
    IN  SubSeq(seq, a + 1, b)

\* arr[tuple(sls)] of a 2-D array
NpIndex2(arr, sls) ==
    LET rows == NpIndex1(arr, sls[1])
    IN  [i \in 1..Len(rows) |-> NpIndex1(rows[i], sls[2])]

ArrShape(arr) == <<Len(arr), IF Len(arr) = 0 THEN 0 ELSE Len(arr[1])>>

\* np.pad(seq, (lo, hi), mode='edge') on one axis
PadEdge1(seq, lo, hi) ==
    [k \in 1..lo |-> seq[1]] \o seq \o [k \in 1..hi |-> seq[Len(seq)]]

\* np.pad(arr, pad_list, mode='edge') of a 2-D array
NpPadEdge(arr, pad_list) ==
    PadEdge1([i \in 1..Len(arr) |-> PadEdge1(arr[i], pad_list[2][1], pad_list[2][2])],
             pad_list[1][1], pad_list[1][2])

\* the variant that leaves minpad at 0 when the window starts inside the pad
calculate_slice_padding_no_minpad(sl, pad_ammount, data_stop) ==
    LET minval0 == IF sl.start # None THEN Some(sl.start[1] - pad_ammount) ELSE None
        maxval0 == IF sl.stop # None THEN Some(sl.stop[1] + pad_ammount) ELSE None
        low == minval0 # None /\ minval0[1] < 0
        over == maxval0 # None /\ maxval0[1] > data_stop
    IN  [out_slice |-> PySlice(IF low THEN Some(0) ELSE minval0,
                               IF over THEN Some(data_stop + 1) ELSE maxval0,
                               sl.step),
         pad |-> <<IF minval0 = None THEN pad_ammount ELSE 0,
                   IF over THEN maxval0[1] - data_stop
                   ELSE IF maxval0 = None THEN pad_ammount ELSE 0>>]

\* in_slice is a slice here (descriptors hold slices only).  None > data_stop
\* is False (Python 2 ordering), so a missing stop keeps maxpad = pad_ammount.
calculate_slice_padding(sl, pad_ammount, data_stop) ==
    LET minval0 == IF sl.start # None THEN Some(sl.start[1] - pad_ammount) ELSE None
        maxval0 == IF sl.stop # None THEN Some(sl.stop[1] + pad_ammount) ELSE None
        low == minval0 # None /\ minval0[1] < 0
        over == maxval0 # None /\ maxval0[1] > data_stop
    IN  [out_slice |-> PySlice(IF low THEN Some(0) ELSE minval0,
                               IF over THEN Some(data_stop + 1) ELSE maxval0,
                               sl.step),
         pad |-> <<IF minval0 = None THEN pad_ammount
                   ELSE IF low THEN 0 - minval0[1] ELSE 0,
                   IF over THEN maxval0[1] - data_stop
                   ELSE IF maxval0 = None THEN pad_ammount ELSE 0>>]

\* every entry of slice_tup is a slice, so slice_list and pad_list are
\* slice_tup and pad_tup; np.pad cannot extend an empty axis
get_pad_data(arr, slice_tup, pad_tup) ==
    LET data_slice == NpIndex2(arr, slice_tup)
        shp == ArrShape(data_slice)
    IN  IF \E d1 \in 1..2 : shp[d1] = 0 /\ pad_tup[d1] # <<0, 0>>
        THEN Raise("ValueError")
        ELSE Ok(NpPadEdge(data_slice, pad_tup))

\* slice_list and pad_list of get_padded_slice_data after its second loop
padded_locals(arr, padding_dict, input_slice_list) ==
    LET shp == ArrShape(arr)
        csp(d1) == calculate_slice_padding(input_slice_list[d1],
                                           padding_dict[d1 - 1], shp[d1])
    IN  [slice_list |-> [d1 \in 1..Len(input_slice_list) |->
                            IF (d1 - 1) \in DOMAIN padding_dict
                            THEN csp(d1).out_slice ELSE input_slice_list[d1]],
         pad_list |-> [d1 \in 1..Len(input_slice_list) |->
                            IF (d1 - 1) \in DOMAIN padding_dict
                            THEN csp(d1).pad ELSE <<0, 0>>]]

get_padded_slice_data(arr, pdng, input_slice_list) ==
    IF pdng = None
    THEN Ok(NpIndex2(arr, input_slice_list))
    ELSE LET loc == padded_locals(arr, pdng[1], input_slice_list)
         IN  get_pad_data(arr, loc.slice_list, loc.pad_list)

\* the variant that strips the (minpad, maxpad) pairs of its pad_list
get_unpadded_slice_data_pad_list(arr, pdng, input_slice_list, padded_dataset) ==
    IF pdng = None
    THEN Ok(NpIndex2(arr, input_slice_list))
    ELSE LET pad_list == padded_locals(arr, pdng[1], input_slice_list).pad_list
             slice_list_2 ==
                 [d1 \in 1..2 |->
                     PySlice(Some(pad_list[d1][1]),
                             Some(ArrShape(padded_dataset)[d1] - pad_list[d1][2]), None)]
         IN  Ok(NpIndex2(padded_dataset, slice_list_2))

\* slice_list and pad_list of lines 313-317 are computed and never read
get_unpadded_slice_data(arr, pdng, input_slice_list, padded_dataset) ==
    IF pdng = None
    THEN Ok(NpIndex2(arr, input_slice_list))
    ELSE LET padding_dict == pdng[1]
             expand_list == [d1 \in 1..Len(input_slice_list) |->
                                IF (d1 - 1) \in DOMAIN padding_dict
                                THEN padding_dict[d1 - 1] ELSE 0]
             slice_list_2 ==
                 [d1 \in 1..2 |->
                     IF expand_list[d1] > 0
                     THEN PySlice(Some(expand_list[d1]), Some(0 - expand_list[d1]), None)
                     ELSE PySliceNone]
         IN  Ok(NpIndex2(padded_dataset, slice_list_2))

\* a 2-D array whose elements are all different
DataOf(e0, e1) == [i \in 1..e0 |-> [j \in 1..e1 |-> 10 * (i - 1) + (j - 1)]]

\* the windows of an axis of extent e: [start, stop) in bounds, or the whole axis
Windows(e) ==
    {PySliceNone} \cup
    {PySlice(Some(x[1]), Some(x[2]), Some(1)) :
        x \in {y \in (0..(e - 1)) \X (1..e) : y[1] < y[2]}}

PaddingDicts == UNION {[D -> 0..MaxPad] : D \in SUBSET {0, 1}}

InitPad ==
    /\ IdleSlices /\ IdleDist /\ IdleRun
    /\ pc = "start"
    /\ \E e0, e1 \in 1..MaxExtent :
        /\ data = DataOf(e0, e1)
        /\ window \in {<<w0, w1>> : w0 \in Windows(e0), w1 \in Windows(e1)}
    /\ padding \in {None} \cup {Some(d) : d \in PaddingDicts}
    /\ calc = <<>>
    /\ padded = NotCalled
    /\ unpadded = NotCalled

GetPaddedSliceData ==
    /\ pc = "start"
    /\ padded' = get_padded_slice_data(data, padding, window)
    /\ calc' = IF padding = None THEN <<>>
               ELSE padded_locals(data, padding[1], window)
    /\ pc' = "padded"
    /\ UNCHANGED <<data, padding, window, unpadded>>
    /\ UNCHANGED <<sliceVars, distVars, runVars>>

GetUnpaddedSliceData ==
    /\ pc = "padded"
    /\ padded.exc = ""
    /\ unpadded' = get_unpadded_slice_data(data, padding, window, padded.val)
    /\ pc' = "unpadded"
    /\ UNCHANGED <<data, padding, window, calc, padded>>
    /\ UNCHANGED <<sliceVars, distVars, runVars>>

SpecPad == InitPad /\ [][GetPaddedSliceData \/ GetUnpaddedSliceData]_vars

\* ------------------------------------------------- properties of the padding
PaddedDims == IF padding = None THEN {} ELSE DOMAIN padding[1]
PadWidth(d) == IF d \in PaddedDims THEN padding[1][d] ELSE 0
Finite(sl) == sl.start # None /\ sl.stop # None

\* C5 (as claimed): for a requested range [start, stop) in bounds and pad
\* width p, calculate_slice_padding returns the window
\* [max(start - p, 0), min(stop + p, extent)), lowPad = max(0, p - start) and
\* highPad = max(0, stop + p - extent); the window's stop never exceeds the
\* extent and window length + lowPad + highPad = (stop - start) + 2p.
C5_PaddedWindow ==
    (pc \in {"padded", "unpadded"} /\ padding # None) =>
        \A d \in PaddedDims : Finite(window[d + 1]) =>
            LET start == window[d + 1].start[1]
                stop == window[d + 1].stop[1]
                p == PadWidth(d)
                extent == ArrShape(data)[d + 1]
                out == calc.slice_list[d + 1]
                pads == calc.pad_list[d + 1]
            IN  /\ out.start = Some(Max(start - p, 0))
                /\ out.stop = Some(Min(stop + p, extent))
                /\ pads = <<Max(0, p - start), Max(0, (stop + p) - extent)>>
                /\ out.stop[1] <= extent
                /\ (out.stop[1] - out.start[1]) + pads[1] + pads[2]
                       = (stop - start) + 2 * p

\* C6: stripping the result of the padded read of a window gives the raw
\* read data[window], for every window and every padding (pad 0, windows at
\* either edge of the array, unpadded dimensions included).
C6_PaddingRoundTrip ==
    pc = "unpadded" =>
        /\ padded.exc = ""
        /\ unpadded = Ok(NpIndex2(data, window))

\* rows [0, 1) of three are read with pad 2 on dimension 0: lowPad = 2 and
\* highPad = 0 differ, dimension 1 is not padded, and the strip returned the
\* one requested row out of the five padded ones
C6_Witness ==
    /\ pc = "unpadded"
    /\ Len(data) = 3
    /\ padding # None
    /\ PaddedDims = {0}
    /\ PadWidth(0) = 2
    /\ window[1] = PySlice(Some(0), Some(1), Some(1))
    /\ calc.pad_list[1] = <<2, 0>>
    /\ Len(padded.val) = 5
    /\ unpadded.val = <<NpIndex1(data[1], window[2])>>

\* arr without lo leading and hi trailing elements on each axis
StripPads(arr, pads) ==
    LET rows == SubSeq(arr, pads[1][1] + 1, Len(arr) - pads[1][2])
    IN  [i \in 1..Len(rows) |->
            SubSeq(rows[i], pads[2][1] + 1, Len(rows[i]) - pads[2][2])]

\* C8 (as claimed): the strip removes exactly lowPad elements from the front
\* and highPad from the back of every padded dimension, (lowPad, highPad)
\* being what calculate_slice_padding computed for the window, and the result
\* is the requested window.
C8_StripLowHighPad ==
    (pc = "unpadded" /\ padding # None) =>
        /\ unpadded.exc = ""
        /\ unpadded.val = StripPads(padded.val, calc.pad_list)
        /\ unpadded.val = NpIndex2(data, window)

\* C8 (amended): the strip removes exactly p elements, the pad width of the
\* dimension, from the front and p from the back of every padded dimension,
\* whatever lowPad and highPad are, leaves the other dimensions as they are,
\* and the result is the requested window.
C8_StripPadWidth ==
    (pc = "unpadded" /\ padding # None) =>
        /\ unpadded.exc = ""
        /\ unpadded.val = StripPads(padded.val, <<<<PadWidth(0), PadWidth(0)>>,
                                                  <<PadWidth(1), PadWidth(1)>>>>)
        /\ unpadded.val = NpIndex2(data, window)

\* columns [2, 3) of three are read with pad 1 on dimension 1: lowPad = 0,
\* highPad = 1, and the strip took one column from each end
C8_Witness ==
    /\ pc = "unpadded"
    /\ padding # None
    /\ 1 \in PaddedDims
    /\ PadWidth(1) = 1
    /\ ArrShape(data)[2] = 3
    /\ window[2] = PySlice(Some(2), Some(3), Some(1))
    /\ calc.pad_list[2] = <<0, 1>>
    /\ ArrShape(padded.val)[2] = 3
    /\ ArrShape(unpadded.val)[2] = 1


\* ============================================================ plugin runner
\* A plugin is what isinstance tells of it: [loader, saver], whether it
\* inherits from BaseLoader and from BaseSaver.
Plugins == [loader : BOOLEAN, saver : BOOLEAN]

\* the variant that does not look at the final plugin
check_loaders_and_savers_first_only(plist) ==
    IF Len(plist) = 0 THEN "IndexError"
    ELSE IF ~plist[1].loader THEN "exit"
    ELSE "ok"

\* __check_loaders_and_savers: "ok" when it returns, "exit" for sys.exit,
\* "IndexError" for plugin_list[0] of an empty list
check_loaders_and_savers(plist) ==
    IF Len(plist) = 0 THEN "IndexError"
    ELSE IF ~plist[1].loader THEN "exit"
    ELSE IF ~plist[Len(plist)].saver THEN "exit"
    ELSE "ok"

InitRun ==
    /\ IdleSlices /\ IdleDist /\ IdlePad
    /\ pc = "start"
    /\ plugin_list \in UNION {[1..n -> Plugins] : n \in 0..MaxPlugins}
    /\ log = <<>>

\* _run_plugin_list up to the call of __run_plugin_list_check
CreateExperiment ==
    /\ pc = "start"
    /\ log' = Append(log, "experiment")
    /\ pc' = "check"
    /\ UNCHANGED <<plugin_list, sliceVars, distVars, padVars>>

\* __run_plugin_list_check: the barrier and __check_loaders_and_savers
CheckLoadersAndSavers ==
    /\ pc = "check"
    /\ LET r == check_loaders_and_savers(plugin_list)
       IN  /\ log' = Append(log, "check_loaders_and_savers")
           /\ pc' = IF r = "ok" THEN "run_plugins"
                    ELSE IF r = "exit" THEN "exited" ELSE "raised"
    /\ UNCHANGED <<plugin_list, sliceVars, distVars, padVars>>

\* pu.run_plugins(self.exp, plugin_list, check=True)
RunPluginsCheck ==
    /\ pc = "run_plugins"
    /\ log' = Append(log, "run_plugins_check")
    /\ pc' = "clear"
    /\ UNCHANGED <<plugin_list, sliceVars, distVars, padVars>>

\* self.exp._clear_data_objects() and "Plugin list check complete!"
ClearDataObjects ==
    /\ pc = "clear"
    /\ log' = Append(log, "check_complete")
    /\ pc' = "save"
    /\ UNCHANGED <<plugin_list, sliceVars, distVars, padVars>>

\* expInfo.plugin_list._save_plugin_list(...)
SavePluginList ==
    /\ pc = "save"
    /\ log' = Append(log, "save_plugin_list")
    /\ pc' = "transport"
    /\ UNCHANGED <<plugin_list, sliceVars, distVars, padVars>>

\* self._transport_run_plugin_list()
TransportRunPluginList ==
    /\ pc = "transport"
    /\ log' = Append(log, "transport_run_plugin_list")
    /\ pc' = "complete"
    /\ UNCHANGED <<plugin_list, sliceVars, distVars, padVars>>

\* "Processing Complete", nxs_file.close(), return self.exp
ProcessingComplete ==
    /\ pc = "complete"
    /\ log' = Append(log, "processing_complete")
    /\ pc' = "done"
    /\ UNCHANGED <<plugin_list, sliceVars, distVars, padVars>>

NextRun ==
    \/ CreateExperiment
    \/ CheckLoadersAndSavers
    \/ RunPluginsCheck
    \/ ClearDataObjects
    \/ SavePluginList
    \/ TransportRunPluginList
    \/ ProcessingComplete

SpecRun == InitRun /\ [][NextRun]_vars

\* ------------------------------------------------- properties of the runner
ProcessingSteps ==
    {"run_plugins_check", "save_plugin_list", "transport_run_plugin_list",
     "processing_complete"}

LoaderFirstSaverLast ==
    /\ Len(plugin_list) > 0
    /\ plugin_list[1].loader
    /\ plugin_list[Len(plugin_list)].saver

\* C10: in every run of _run_plugin_list each of the steps "run the plugins
\* in check mode", "save the plugin list", "_transport_run_plugin_list" and
\* "Processing Complete" comes after the completed loader/saver check, and
\* only when the first plugin is a loader and the last a saver; otherwise the
\* run has ended at the check and holds none of these steps.
C10_CheckPrecedesProcessing ==
    /\ \A k \in 1..Len(log) : log[k] \in ProcessingSteps =>
          /\ \E j \in 1..(k - 1) : log[j] = "check_loaders_and_savers"
          /\ LoaderFirstSaverLast
    /\ pc \in {"run_plugins", "clear", "save", "transport", "complete", "done"}
          => LoaderFirstSaverLast
    /\ (~LoaderFirstSaverLast /\ pc \notin {"start", "check"}) =>
          /\ pc \in {"exited", "raised"}
          /\ log[Len(log)] = "check_loaders_and_savers"
          /\ \A k \in 1..Len(log) : log[k] \notin ProcessingSteps

\* a run whose list starts with a loader and ends with a plugin that is no
\* saver has exited at the check
C10_Witness ==
    /\ pc = "exited"
    /\ Len(plugin_list) >= 2
    /\ plugin_list[1].loader
    /\ ~plugin_list[Len(plugin_list)].saver
    /\ log = <<"experiment", "check_loaders_and_savers">>

=============================================================================
